---- MODULE Spec2Model ----
(***************************************************************************)
(* ParticleFingerprintGenerator (atoml/fingerprint/particle_fingerprint.py) *)
(* as a state machine: one generator object, the structure the caller hands *)
(* to it, and the five vectorisation methods.                              *)
(*                                                                         *)
(* Lengths are integers in picometres (0.01 Angstrom): 0.2 A = 20,         *)
(* 10 A = 1000, 50 A = 5000.  Structures are collinear (atoms on the x     *)
(* axis), so a distance is |x_i - x_j|.  Input structures carry a cell of  *)
(* positive volume and an auxiliary store that holds the 'data' slot; both *)
(* are what the ase.ga collaborators need to run at all.                   *)
(* A Python None is the empty sequence <<>> and a value v that may be None *)
(* is <<v>>.                                                               *)
(***************************************************************************)
EXTENDS Integers, Sequences, FiniteSets, TLC

\* ---- bounds of the model ----
MaxAtoms == 3
MaxSwapAtoms == 2
NShell == 13

\* ---- program constants ----
DefaultMaxBonds == 13
DefaultDx == 20
DefaultCellSize == 5000
DefaultNbin == 4
DefaultNbins == 5
DefaultRmax == 800
RdfRmax == 1000
RdfNbins == 200
NNMargin == 20
MinBond == 10
MaxCoordination == 12

\* ---- inputs ----
Elements == {47, 78}
Positions == {0, 300}
InputCells == {2000}
SmallMaxBonds == {2}

None == <<>>
Some(v) == <<v>>
Get(o) == o[1]

Abs(x) == IF x < 0 THEN -x ELSE x

Range(s) == {s[i] : i \in DOMAIN s}

RECURSIVE SeqSum(_)
SeqSum(s) == IF s = <<>> THEN 0 ELSE Head(s) + SeqSum(Tail(s))

RECURSIVE Flatten(_)
Flatten(ss) == IF ss = <<>> THEN <<>> ELSE Head(ss) \o Flatten(Tail(ss))

RECURSIVE GCD(_, _)
GCD(a, b) == IF b = 0 THEN a ELSE GCD(b, a % b)

\* the sorted list of a set of integers: Python's sorted(set(...))
RECURSIVE sorted(_)
sorted(S) ==
    IF S = {} THEN <<>>
    ELSE LET m == CHOOSE x \in S : \A y \in S : x <= y
         IN <<m>> \o sorted(S \ {m})

\* iteration order of a Python set/frozenset of small integers: the slot of
\* an integer n in the 8-slot hash table is n mod 8 (hash(n) = n)
RECURSIVE set_order(_)
set_order(S) ==
    IF S = {} THEN <<>>
    ELSE LET m == CHOOSE x \in S : \A y \in S : (x % 8) <= (y % 8)
         IN <<m>> \o set_order(S \ {m})

\* position of the first occurrence of v in list s (0-based): list.index
index(s, v) == (CHOOSE i \in DOMAIN s : s[i] = v /\ \A j \in 1..(i-1) : s[j] # v) - 1

\* ---- the structure (ase.Atoms) ----
len(data) == Len(data.numbers)

get_atomic_numbers(data) == data.numbers

get_all_distances(data) ==
    [i \in 1..len(data) |->
        [j \in 1..len(data) |-> Abs(data.positions[i] - data.positions[j])]]

\* atoms.set_cell([c, c, c]): the positions stay
set_cell(atoms, c) == [atoms EXCEPT !.cell = c]

\* atoms.center(): the bounding box is moved to the middle of the cell
center(atoms) ==
    LET xs == Range(atoms.positions)
        lo == CHOOSE x \in xs : \A y \in xs : x <= y
        hi == CHOOSE x \in xs : \A y \in xs : x >= y
        shift == (atoms.cell - lo - hi) \div 2
    IN [atoms EXCEPT !.positions = [i \in DOMAIN atoms.positions |->
                                       atoms.positions[i] + shift]]

\* ---- collaborators from ase.ga.utilities ----
covalent_radii == [n \in Elements |-> IF n = 47 THEN 145 ELSE 136]

\* get_neighborlist(atoms, dx): conn[i] = the other atoms closer than the
\* sum of the covalent radii plus dx
get_neighborlist(atoms, dx) ==
    LET dm == get_all_distances(atoms)
    IN [i \in 1..len(atoms) |->
          {j \in 1..len(atoms) :
              j # i /\ dm[i][j] < covalent_radii[atoms.numbers[i]]
                                  + covalent_radii[atoms.numbers[j]] + dx}]

\* get_neighbor_list(atoms): the list kept in atoms.info['data'], or None
get_neighbor_list(atoms) == atoms.neighborlist

\* bin of the histogram a distance rij falls in: ceil(rij / dr), dr = rmax/nbins
rdf_index(rij, rmax, nbins) == (rij * nbins + rmax - 1) \div rmax

\* 12 * (rrr^2 + dr^2/12) / dr^2 for the bin centre rrr = (i - 0.5) * dr
rdf_weight(i) == 3 * (2 * i - 1) * (2 * i - 1) + 1

\* get_rdf(atoms, rmax, nbins, dm) without elements, then np.argmax(rdf):
\* the pairs i < j are counted per bin 0..nbins, bin 0 is dropped and each
\* bin is divided by norm * (rrr^2 + dr^2/12), norm > 0 the same for all
\* bins.  The value is the (1-based) bin of the first largest quotient;
\* with every bin empty argmax is the first bin.
get_rdf_argmax(atoms, rmax, nbins, dm) ==
    LET pairs == {p \in (1..len(atoms)) \X (1..len(atoms)) : p[1] < p[2]}
        bin(p) == rdf_index(dm[p[1]][p[2]], rmax, nbins)
        B == {bin(p) : p \in pairs} \cap (1..nbins)
        count(b) == Cardinality({p \in pairs : bin(p) = b})
    IN IF B = {} THEN 1
       ELSE CHOOSE b \in B :
               \A c \in B :
                  \/ count(b) * rdf_weight(c) > count(c) * rdf_weight(b)
                  \/ (count(b) * rdf_weight(c) = count(c) * rdf_weight(b) /\ b <= c)

\* get_rdf(..., elements=c, no_dists=True): the ordered pairs (i of c[1],
\* j of c[2]) per bin; an entry is <<count, len(i_indices), len(atoms), cell>>,
\* the numbers its value count / (norm * (rrr^2 + dr^2/12)) is made of
get_rdf_partial(atoms, rmax, nbins, dm, c) ==
    LET I == {i \in 1..len(atoms) : atoms.numbers[i] = c[1]}
        J == {j \in 1..len(atoms) : atoms.numbers[j] = c[2]}
    IN [b \in 1..nbins |->
          <<Cardinality({p \in I \X J : rdf_index(dm[p[1]][p[2]], rmax, nbins) = b}),
            Cardinality(I), len(atoms), atoms.cell>>]

\* asap3 RadialDistributionFunction(atoms, rMax, nBins).get_rdf(elements=c)
asap_get_rdf(atoms, rmax, nbins, c) ==
    get_rdf_partial(atoms, rmax, nbins, get_all_distances(atoms), c)

\* get_atoms_distribution(atoms, number_of_bins, no_count_types=[t]) with
\* its default max_distance = 8 A: the atoms not of type t are binned by
\* their distance d from the middle of the cell, bin k for
\* k * max_distance / (bins - 1) < d < (k + 1) * max_distance / (bins - 1)
\* and the last bin for d > max_distance
get_atoms_distribution(atoms, number_of_bins, t) ==
    LET max_distance == 800
        d(i) == Abs(atoms.positions[i] - atoms.cell \div 2)
        counted == {i \in 1..len(atoms) : atoms.numbers[i] # t}
    IN [k \in 1..number_of_bins |->
          IF k < number_of_bins
          THEN Cardinality({i \in counted :
                   /\ (k - 1) * max_distance < d(i) * (number_of_bins - 1)
                   /\ d(i) * (number_of_bins - 1) < k * max_distance})
          ELSE Cardinality({i \in counted : d(i) > max_distance})]

\* get_atoms_connections(atoms, max_conn, no_count_types=[t]): the list
\* kept in the structure, or else get_neighborlist with its default
\* dx = 0.2 A; no_of_conn[min(len(conn[i]), max_conn - 1)] += 1 for the
\* atoms not of type t, no_of_conn of max_conn entries
get_atoms_connections(atoms, max_conn, t) ==
    LET kept == get_neighbor_list(atoms)
        conn == IF kept = None THEN get_neighborlist(atoms, 20) ELSE Get(kept)
        cm(i) == IF Cardinality(conn[i]) < max_conn - 1
                 THEN Cardinality(conn[i]) ELSE max_conn - 1
    IN [k \in 1..max_conn |->
          Cardinality({i \in 1..len(atoms) : atoms.numbers[i] # t /\ cm(i) = k - 1})]

\* ---- ParticleFingerprintGenerator ----
Ok(v) == [err |-> "none", vec |-> v]
Raise(e) == [err |-> e, vec |-> <<>>]

\* a quotient n / d of two integers, d > 0, in lowest terms
Frac(n, d) == LET g == GCD(n, d) IN <<n \div g, d \div g>>

\* (mutant) the layout is taken from the configured element set
elements_from_types(self, data) ==
    IF self.atom_types = None THEN sorted(Range(get_atomic_numbers(data)))
    ELSE sorted(Range(Get(self.atom_types)))
\* elements = sorted(set(self.get_atomic_numbers(data)))
elements(self, data) == sorted(Range(get_atomic_numbers(data)))

\* nndist = dists[np.argmax(rdf)] + 0.2, as 2 * nbins * nndist:
\* dists[b] = (b - 0.5) * rmax / nbins
nndist(data, dm) ==
    (2 * get_rdf_argmax(data, RdfRmax, RdfNbins, dm) - 1) * RdfRmax
    + 2 * RdfNbins * NNMargin

\* (mutant) an atom is not its own neighbour
below_nndist_not_self(d, nnd) == 0 < d /\ 2 * RdfNbins * d < nnd
\* d < nndist
below_nndist(d, nnd) == 2 * RdfNbins * d < nnd

\* the rows of nnmat after the counting loop: nnmat[row][column] += 1 for
\* every atom i and every n with dm[i][n] < nndist
nnmat_counts(self, data) ==
    LET els == elements(self, data)
        dm == get_all_distances(data)
        nnd == nndist(data, dm)
        N == 1..len(data)
    IN [r \in 1..Len(els) |-> [c \in 1..Len(els) |->
          Cardinality({p \in N \X N :
                          /\ data.numbers[p[1]] = els[r]
                          /\ data.numbers[p[2]] = els[c]
                          /\ below_nndist(dm[p[1]][p[2]], nnd)})]]

\* (mutant) every row is divided by the number of atoms
row_divisor_all(data, el) == len(data)
\* nnmat[i] /= the number of atoms of element el
row_divisor(data, el) == Cardinality({j \in 1..len(data) : data.numbers[j] = el})

nearestneighbour_vec(self, data) ==
    LET els == elements(self, data)
        counts == nnmat_counts(self, data)
        nnmat == [r \in 1..Len(els) |-> [c \in 1..Len(els) |->
                     Frac(counts[r][c], row_divisor(data, els[r]))]]
    IN [self |-> self, atoms |-> data,
        \* [j ... if data[i].number == elements[j]][0] of an empty list
        ret |-> IF \E i \in 1..len(data) : data.numbers[i] \notin Range(els)
                THEN Raise("IndexError")
                ELSE Ok(Flatten(nnmat))]

\* neighbors = [k for k in range(len(dm[j])) if 0.1 < dm[j][k] < nndist]
bond_neighbors(data, dm, nnd, j) ==
    {k \in 1..len(data) : MinBond < dm[j][k] /\ below_nndist(dm[j][k], nnd)}

\* if ln > 12: continue
skipped(self, ln) == ln > MaxCoordination

\* track_nnmat[ln] with track_nnmat of max_bonds slices: numpy raises
\* IndexError for ln >= max_bonds
out_of_bounds(self, ln) == ln >= self.max_bonds

\* the atoms whose neighbours are written into track_nnmat
bond_counted(self, data, dm, nnd) ==
    {j \in 1..len(data) :
        LET ln == Cardinality(bond_neighbors(data, dm, nnd, j))
        IN ~skipped(self, ln) /\ ln > 0}

bond_count_vec(self, data) ==
    LET els == elements(self, data)
        E == Len(els)
        dm == get_all_distances(data)
        nnd == nndist(data, dm)
        counted == bond_counted(self, data, dm, nnd)
        \* one <<ln, row, column, j, l>> per track_nnmat[ln][row][column] += 1
        writes_of(j) ==
            LET neighbors == bond_neighbors(data, dm, nnd, j)
                ln == Cardinality(neighbors)
                row == index(els, data.numbers[j])
            IN {<<ln, row, index(els, data.numbers[l]), j, l>> : l \in neighbors}
        writes == UNION {writes_of(j) : j \in counted}
        track_nnmat ==
            [c \in 1..self.max_bonds |-> [r \in 1..E |-> [col \in 1..E |->
                Cardinality({w \in writes :
                                w[1] = c - 1 /\ w[2] = r - 1 /\ w[3] = col - 1})]]]
    IN [self |-> self, atoms |-> data,
        \* elements.index(number) of a number that is not in the list
        ret |-> IF \E j \in 1..len(data) : data.numbers[j] \notin Range(els)
                THEN Raise("ValueError")
                ELSE IF \E w \in writes : out_of_bounds(self, w[1])
                THEN Raise("IndexError")
                ELSE Ok(Flatten([c \in 1..self.max_bonds |-> Flatten(track_nnmat[c])]))]

\* (mutant) the element set is inferred on every call
always_infer(self) == TRUE
\* if self.atom_types is None
atom_types_is_None(self) == self.atom_types = None

\* frozenset(atoms.get_atomic_numbers())
frozenset_of_numbers(atoms) == set_order(Range(atoms.numbers))

\* (mutant) the neighbor list is attached whatever get_nl is
attach_always(self, atoms) ==
    [atoms EXCEPT !.neighborlist = Some(get_neighborlist(atoms, self.dx))]
\* if self.get_nl: atoms.info['data']['neighborlist'] = get_neighborlist(...)
attach_neighborlist(self, atoms) ==
    IF self.get_nl
    THEN [atoms EXCEPT !.neighborlist = Some(get_neighborlist(atoms, self.dx))]
    ELSE atoms

\* self.atom_types after the 'is None' test and the assignment
resolve_atom_types(self, atoms) ==
    IF atom_types_is_None(self)
    THEN [self EXCEPT !.atom_types = Some(frozenset_of_numbers(atoms))]
    ELSE self

\* (mutant) the atoms are centred before the cell is set
center_then_set_cell(self, atoms) == set_cell(center(atoms), self.cell_size)
\* atoms.set_cell([cell_size] * 3); atoms.center()
recenter(self, atoms) == center(set_cell(atoms, self.cell_size))

\* for i in self.atom_types: dist += get_atoms_distribution(...)
distribution_loop(self, atoms, types) ==
    Flatten([k \in 1..Len(types) |-> get_atoms_distribution(atoms, self.nbin, types[k])])

distribution_vec(self, atoms) ==
    LET a == attach_neighborlist(self, recenter(self, atoms))
        g == resolve_atom_types(self, a)
    IN [self |-> g, atoms |-> a,
        ret |-> Ok(distribution_loop(g, a, Get(g.atom_types)))]

\* for an in self.atom_types: conn = get_atoms_connections(...); fp.append(i)
connections_loop(self, atoms, types) ==
    Flatten([k \in 1..Len(types) |->
                get_atoms_connections(atoms, self.max_bonds, types[k])])

connections_vec(self, atoms) ==
    LET a == attach_neighborlist(self, atoms)
        g == resolve_atom_types(self, a)
    IN [self |-> g, atoms |-> a,
        ret |-> Ok(connections_loop(g, a, Get(g.atom_types)))]

\* (mutant) the pairs are drawn from the configured element set
product_of_types(self, atoms) ==
    LET s == IF self.atom_types = None THEN set_order(Range(atoms.numbers))
             ELSE Get(self.atom_types)
    IN [k \in 1..(Len(s) * Len(s)) |->
          <<s[((k - 1) \div Len(s)) + 1], s[((k - 1) % Len(s)) + 1]>>]
\* product(set(atoms.numbers), repeat=2)
product(self, atoms) ==
    LET s == set_order(Range(atoms.numbers))
    IN [k \in 1..(Len(s) * Len(s)) |->
          <<s[((k - 1) \div Len(s)) + 1], s[((k - 1) % Len(s)) + 1]>>]

rdf_vec(self, atoms, asap) ==
    LET dm == get_all_distances(atoms)
        rf(c) == IF asap THEN asap_get_rdf(atoms, self.rmax, self.nbins, c)
                 ELSE get_rdf_partial(atoms, self.rmax, self.nbins, dm, c)
        cs == product(self, atoms)
    IN [self |-> self, atoms |-> atoms,
        ret |-> Ok(Flatten([k \in 1..Len(cs) |-> rf(cs[k])]))]

\* ---- state ----
VARIABLES
    gen,          \* the generator object: atom_types and the configuration
    atoms,        \* the structure the caller passes to the methods
    last,         \* the last call: its method and what it returned or raised
    no_asap,      \* module global set at import: asap3 is not installed
    given,        \* history: the atom_types argument of __init__
    twice,        \* history: the last call repeated the call before it, the
                  \* caller not having touched the structure in between
    first_seen,   \* history: the element set of the first structure seen by
                  \* distribution_vec or connections_vec
    \* two threads calling distribution_vec / connections_vec on one generator
    pc,           \* where each thread is in its call
    tmethod,      \* the method each thread calls
    tatoms,       \* the structure each thread passes (its own object)
    ttypes,       \* the self.atom_types object each thread's loop iterates
    tret,         \* what each thread's call returned
    started,      \* history: the threads in the order they entered their call
    writers,      \* history: the threads in the order they assigned atom_types
    overlapped    \* history: a call was entered while the other was running

seqvars == <<atoms, last, no_asap, given, twice, first_seen>>
thrvars == <<pc, tmethod, tatoms, ttypes, tret, started, writers, overlapped>>
vars == <<gen, seqvars, thrvars>>

explicit == given # None

Methods == {"nearestneighbour_vec", "bond_count_vec", "distribution_vec",
            "connections_vec", "rdf_vec"}
Threads == {1, 2}

\* an ase.Atoms object as the caller builds it
Atoms(numbers, positions, cell) ==
    [numbers |-> numbers, positions |-> positions, cell |-> cell,
     neighborlist |-> None]

\* the structures of up to n atoms, the atoms listed from left to right
StructuresUpTo(n) ==
    UNION {{Atoms(ns, ps, c) :
               ns \in [1..k -> Elements],
               ps \in {f \in [1..k -> Positions] : \A i \in 1..(k - 1) : f[i] <= f[i + 1]},
               c \in InputCells} : k \in 1..n}

\* NShell coincident atoms of element a and one atom of element b, 3 A away
Shell(a, b, c) ==
    Atoms([i \in 1..(NShell + 1) |-> IF i <= NShell THEN a ELSE b],
          [i \in 1..(NShell + 1) |-> IF i <= NShell THEN 0 ELSE 300], c)

\* chains of up to n atoms, 3 A between neighbours
ChainsUpTo(n) ==
    UNION {{Atoms(ns, [i \in 1..k |-> (i - 1) * 300], c) :
               ns \in [1..k -> Elements], c \in InputCells} : k \in 1..n}

Structures ==
    StructuresUpTo(MaxAtoms)
    \cup ChainsUpTo(MaxAtoms)
    \cup {Shell(a, b, c) : a \in Elements, b \in Elements, c \in InputCells}

\* __init__(**kwargs)
init(atom_types, max_bonds, get_nl) ==
    [atom_types |-> atom_types,
     max_bonds |-> max_bonds,
     get_nl |-> get_nl,
     dx |-> DefaultDx,
     cell_size |-> DefaultCellSize,
     nbin |-> DefaultNbin,
     nbins |-> DefaultNbins,
     rmax |-> DefaultRmax]

AtomTypesArgs == {None, Some(<<47>>), Some(<<47, 78>>)}

NoCall == [method |-> "none", result |-> Ok(<<>>)]

InitCalls(S) ==
    /\ atoms \in S
    /\ last = NoCall
    /\ twice = FALSE
    /\ no_asap \in BOOLEAN
    /\ first_seen = None

InitThreads(S) ==
    /\ pc = [t \in Threads |-> "idle"]
    /\ tmethod = [t \in Threads |-> "none"]
    /\ tatoms \in [Threads -> S]
    /\ ttypes = [t \in Threads |-> None]
    /\ tret = [t \in Threads |-> <<>>]
    /\ started = <<>>
    /\ writers = <<>>
    /\ overlapped = FALSE

Init ==
    /\ \E t \in AtomTypesArgs, mb \in SmallMaxBonds \cup {DefaultMaxBonds},
          nl \in BOOLEAN :
          /\ gen = init(t, mb, nl)
          /\ given = t
    /\ InitCalls(Structures)
    /\ InitThreads({Atoms(<<47>>, <<0>>, DefaultCellSize)})

Call(method, out) ==
    /\ gen' = out.self
    /\ atoms' = out.atoms
    /\ last' = [method |-> method, result |-> out.ret]
    /\ twice' = (last.method = method)
    /\ UNCHANGED <<no_asap, given, thrvars>>

NearestNeighbourVec ==
    /\ Call("nearestneighbour_vec", nearestneighbour_vec(gen, atoms))
    /\ UNCHANGED first_seen

BondCountVec ==
    /\ Call("bond_count_vec", bond_count_vec(gen, atoms))
    /\ UNCHANGED first_seen

Seen == IF first_seen = None THEN Some(Range(atoms.numbers)) ELSE first_seen

DistributionVec ==
    /\ Call("distribution_vec", distribution_vec(gen, atoms))
    /\ first_seen' = Seen

ConnectionsVec ==
    /\ Call("connections_vec", connections_vec(gen, atoms))
    /\ first_seen' = Seen

RdfVec ==
    /\ Call("rdf_vec", rdf_vec(gen, atoms, ~no_asap))
    /\ UNCHANGED first_seen

\* between two calls the caller passes another structure
SetStructure ==
    /\ last.method \in Methods
    /\ \E s \in ChainsUpTo(MaxSwapAtoms) : atoms' = s
    /\ last' = [method |-> "caller", result |-> Ok(<<>>)]
    /\ twice' = FALSE
    /\ UNCHANGED <<gen, no_asap, given, first_seen, thrvars>>

Next ==
    \/ NearestNeighbourVec
    \/ BondCountVec
    \/ DistributionVec
    \/ ConnectionsVec
    \/ RdfVec
    \/ SetStructure

Spec == Init /\ [][Next]_vars

\* ---- two threads on one generator, statement by statement ----
Running(t) == pc[t] \notin {"idle", "done"}

\* a thread enters distribution_vec or connections_vec
Enter(t) ==
    /\ pc[t] = "idle"
    /\ \E m \in {"distribution_vec", "connections_vec"} : tmethod' = [tmethod EXCEPT ![t] = m]
    /\ pc' = [pc EXCEPT ![t] = "prepare"]
    /\ started' = Append(started, t)
    /\ overlapped' = (overlapped \/ \E u \in Threads \ {t} : Running(u))
    /\ UNCHANGED <<gen, seqvars, tatoms, ttypes, tret, writers>>

\* the statements before the 'is None' test, on the thread's own structure
Prepare(t) ==
    /\ pc[t] = "prepare"
    /\ tatoms' = [tatoms EXCEPT ![t] =
                     IF tmethod[t] = "distribution_vec"
                     THEN attach_neighborlist(gen, recenter(gen, tatoms[t]))
                     ELSE attach_neighborlist(gen, tatoms[t])]
    /\ pc' = [pc EXCEPT ![t] = "test"]
    /\ UNCHANGED <<gen, seqvars, tmethod, ttypes, tret, started, writers, overlapped>>

\* if self.atom_types is None:
Test(t) ==
    /\ pc[t] = "test"
    /\ pc' = [pc EXCEPT ![t] = IF atom_types_is_None(gen) THEN "assign" ELSE "loop"]
    /\ UNCHANGED <<gen, seqvars, tmethod, tatoms, ttypes, tret, started, writers, overlapped>>

\* self.atom_types = frozenset(atoms.get_atomic_numbers())
Assign(t) ==
    /\ pc[t] = "assign"
    /\ gen' = [gen EXCEPT !.atom_types = Some(frozenset_of_numbers(tatoms[t]))]
    /\ writers' = Append(writers, t)
    /\ pc' = [pc EXCEPT ![t] = "loop"]
    /\ UNCHANGED <<seqvars, tmethod, tatoms, ttypes, tret, started, overlapped>>

\* for i in self.atom_types: ...; return
Loop(t) ==
    /\ pc[t] = "loop"
    /\ ttypes' = [ttypes EXCEPT ![t] = gen.atom_types]
    /\ tret' = [tret EXCEPT ![t] =
                   IF tmethod[t] = "distribution_vec"
                   THEN distribution_loop(gen, tatoms[t], Get(gen.atom_types))
                   ELSE connections_loop(gen, tatoms[t], Get(gen.atom_types))]
    /\ pc' = [pc EXCEPT ![t] = "done"]
    /\ UNCHANGED <<gen, seqvars, tmethod, tatoms, started, writers, overlapped>>

InitRace ==
    /\ \E nl \in BOOLEAN : gen = init(None, DefaultMaxBonds, nl)
    /\ given = None
    /\ InitCalls({Atoms(<<47>>, <<0>>, DefaultCellSize)})
    /\ InitThreads(ChainsUpTo(MaxSwapAtoms))

NextRace ==
    \E t \in Threads :
        \/ Enter(t)
        \/ Prepare(t)
        \/ Test(t)
        \/ Assign(t)
        \/ Loop(t)

SpecRace == InitRace /\ [][NextRace]_vars

\* ---- properties ----
Returned(method) == last.method = method /\ last.result.err = "none"

\* E, the size of the explicit element set
E == Len(Get(given))
\* k, the number of distinct atomic numbers of the structure
K == Cardinality(Range(atoms.numbers))

\* C1, as stated: with an explicit element set of E types the lengths are
\* fixed by the configuration, whatever the structure holds:
\* nearestneighbour_vec E*E, bond_count_vec max_bonds*E*E,
\* distribution_vec E*nbin, connections_vec E times the arity (max_bonds)
\* of get_atoms_connections.
C1_LengthsFixedByConfiguration ==
    explicit =>
        /\ Returned("nearestneighbour_vec") => Len(last.result.vec) = E * E
        /\ Returned("bond_count_vec") => Len(last.result.vec) = gen.max_bonds * E * E
        /\ Returned("distribution_vec") => Len(last.result.vec) = E * gen.nbin
        /\ Returned("connections_vec") => Len(last.result.vec) = E * gen.max_bonds

\* C1, amended: with an explicit element set of E types, distribution_vec
\* returns E*nbin entries and connections_vec E*max_bonds entries, but
\* nearestneighbour_vec returns k*k entries and every vector bond_count_vec
\* returns has max_bonds*k*k entries, k the number of distinct atomic
\* numbers of the structure passed: these two take their layout from the
\* structure and not from the configured set.
C1_LengthsFromStructure ==
    explicit =>
        /\ last.method = "nearestneighbour_vec" =>
              last.result.err = "none" /\ Len(last.result.vec) = K * K
        /\ Returned("bond_count_vec") => Len(last.result.vec) = gen.max_bonds * K * K
        /\ last.method = "distribution_vec" =>
              last.result.err = "none" /\ Len(last.result.vec) = E * gen.nbin
        /\ last.method = "connections_vec" =>
              last.result.err = "none" /\ Len(last.result.vec) = E * gen.max_bonds

\* a structure of one element, a generator configured with two:
\* nearestneighbour_vec has returned a single entry
C1_Witness ==
    /\ explicit /\ E = 2 /\ K = 1
    /\ Returned("nearestneighbour_vec")
    /\ Len(last.result.vec) = 1

\* C2: with an explicit element set, a method called twice in a row on the
\* structure, the caller not touching it in between, returns the second
\* time what it returned the first time.
C2_Determinism ==
    [][(explicit /\ last.method \in Methods /\ last'.method = last.method)
          => last'.result = last.result]_vars

\* distribution_vec has been called twice in a row with get_nl set: the
\* first call reset the cell, re-centred the atoms and attached the list
C2_Witness ==
    /\ explicit /\ twice /\ gen.get_nl
    /\ Returned("distribution_vec")
    /\ atoms.cell = gen.cell_size /\ atoms.cell \notin InputCells
    /\ atoms.neighborlist # None
    /\ \E i \in 1..Len(last.result.vec) : last.result.vec[i] > 0

\* C3: the element set is first-call-wins and shared by distribution_vec
\* and connections_vec: unset at construction, it stays unset until the
\* first call of either, which sets it to the distinct atomic numbers of
\* that call's structure, and it equals that set after every later call;
\* given to __init__, it never changes.
C3_FirstCallWins ==
    IF explicit THEN gen.atom_types = given
    ELSE IF first_seen = None THEN gen.atom_types = None
    ELSE /\ gen.atom_types # None
         /\ Range(Get(gen.atom_types)) = Get(first_seen)
         /\ Len(Get(gen.atom_types)) = Cardinality(Get(first_seen))

\* a later call has run on a structure of another composition and the
\* cached set is still the first structure's
C3_Witness ==
    /\ ~explicit /\ first_seen # None
    /\ last.method \in {"distribution_vec", "connections_vec"}
    /\ Range(atoms.numbers) # Get(first_seen)
    /\ Range(Get(gen.atom_types)) = Get(first_seen)

\* the integer k times the quotient f
Times(f, k) == Frac(f[1] * k, f[2])

\* C4: after nearestneighbour_vec, for every element i of the structure,
\* row i of the count matrix sums to the number of (atom, neighbour) pairs
\* whose first atom is of type i and whose distance is below the cutoff,
\* and row i of the returned matrix times the number of atoms of type i
\* is that row of counts.
C4_RowSumRoundTrip ==
    last.method = "nearestneighbour_vec" =>
        LET els == sorted(Range(atoms.numbers))
            n == Len(els)
            dm == get_all_distances(atoms)
            nnd == nndist(atoms, dm)
            counts == nnmat_counts(gen, atoms)
            N == 1..len(atoms)
            of(el) == {j \in N : atoms.numbers[j] = el}
        IN /\ last.result.err = "none"
           /\ Len(last.result.vec) = n * n
           /\ \A r \in 1..n :
                /\ SeqSum(counts[r]) =
                      Cardinality({p \in of(els[r]) \X N :
                                      2 * RdfNbins * dm[p[1]][p[2]] < nnd})
                /\ \A c \in 1..n :
                      Times(last.result.vec[(r - 1) * n + c], Cardinality(of(els[r])))
                        = <<counts[r][c], 1>>

\* two elements, and an entry of the returned matrix that is not a whole number
C4_Witness ==
    /\ Returned("nearestneighbour_vec")
    /\ K = 2
    /\ \E i \in 1..Len(last.result.vec) : last.result.vec[i][2] > 1

\* C5: two atoms of one element closer than the cutoff, atom_types that
\* one element: nearestneighbour_vec returns the single entry 2, each
\* atom counting the other and itself.
C5_SelfPairsCounted ==
    LET dm == get_all_distances(atoms)
    IN (/\ last.method = "nearestneighbour_vec"
        /\ given = Some(<<47>>)
        /\ atoms.numbers = <<47, 47>>
        /\ below_nndist(dm[1][2], nndist(atoms, dm)))
       => last.result = Ok(<<(<<2, 1>>)>>)

C5_Witness ==
    /\ Returned("nearestneighbour_vec")
    /\ given = Some(<<47>>)
    /\ atoms.numbers = <<47, 47>>
    /\ atoms.positions[2] - atoms.positions[1] = 300
    /\ last.result.vec = <<(<<2, 1>>)>>

\* the neighbours bond_count_vec counts for atom j: 0.1 A < distance < cutoff
Coordination(j) ==
    LET dm == get_all_distances(atoms)
        nnd == nndist(atoms, dm)
    IN Cardinality({k \in 1..len(atoms) :
                       MinBond < dm[j][k] /\ 2 * RdfNbins * dm[j][k] < nnd})

\* slice c (0-based) of the vector bond_count_vec returned
Slice(c) ==
    LET n == K * K
    IN [i \in 1..n |-> last.result.vec[c * n + i]]

\* C6: for every max_bonds and every structure bond_count_vec runs without
\* error: an atom with more than 12 neighbours is skipped, every other
\* atom adds one to T[ln][type][type] per neighbour, so that slice c sums
\* to c times the number of atoms with exactly c neighbours.
C6_BondCountWithoutError ==
    last.method = "bond_count_vec" =>
        /\ last.result.err = "none"
        /\ Len(last.result.vec) = gen.max_bonds * K * K
        /\ \A c \in 0..(gen.max_bonds - 1) :
              SeqSum(Slice(c)) =
                 IF c > MaxCoordination THEN 0
                 ELSE c * Cardinality({j \in 1..len(atoms) : Coordination(j) = c})

\* C7, as stated: with an explicit element set and an atom of the structure
\* whose type is not in it, nearestneighbour_vec returns the matrix laid
\* out over the explicit set, E*E entries, that atom left out of the rows
\* and columns.
ForeignAtom == \E j \in 1..len(atoms) : atoms.numbers[j] \notin Range(Get(given))

C7_ForeignAtomLeftOut ==
    (explicit /\ ForeignAtom /\ last.method = "nearestneighbour_vec") =>
        /\ last.result.err = "none"
        /\ Len(last.result.vec) = E * E

\* C7, amended: with an explicit element set and an atom of the structure
\* whose type is not in it, nearestneighbour_vec completes without raising;
\* its matrix is laid out over the sorted distinct atomic numbers of the
\* structure itself, k*k entries, so the atom has a row and a column of
\* its own and is counted there (with itself as a neighbour at least).
C7_ForeignAtomCounted ==
    (explicit /\ ForeignAtom /\ last.method = "nearestneighbour_vec") =>
        LET els == sorted(Range(atoms.numbers))
        IN /\ last.result.err = "none"
           /\ Len(last.result.vec) = K * K
           /\ \A r \in 1..K :
                 els[r] \notin Range(Get(given)) =>
                    last.result.vec[(r - 1) * K + r][1] >= last.result.vec[(r - 1) * K + r][2]

\* atom_types = [47], a structure of both elements: four entries
C7_Witness ==
    /\ given = Some(<<47>>) /\ ForeignAtom /\ K = 2
    /\ Returned("nearestneighbour_vec")
    /\ Len(last.result.vec) = 4

\* C9: rdf_vec builds its vector from the atomic numbers of the structure:
\* one partial RDF of nbins values for each of the k*k ordered pairs, in
\* all k*k*nbins values whatever atom_types is, the count of a bin being
\* that of the ordered pairs of atoms of the two elements in that bin; and
\* it leaves the cached element set as it found it.
C9_RdfFromStructure ==
    last.method = "rdf_vec" =>
        LET s == set_order(Range(atoms.numbers))
            dm == get_all_distances(atoms)
            N == 1..len(atoms)
            block(i, j) == ((i - 1) * K + (j - 1)) * gen.nbins
        IN /\ last.result.err = "none"
           /\ Len(last.result.vec) = K * K * gen.nbins
           /\ \A i \in 1..K, j \in 1..K, b \in 1..gen.nbins :
                 last.result.vec[block(i, j) + b][1] =
                    Cardinality({p \in N \X N :
                        /\ atoms.numbers[p[1]] = s[i]
                        /\ atoms.numbers[p[2]] = s[j]
                        /\ (b - 1) * gen.rmax < dm[p[1]][p[2]] * gen.nbins
                        /\ dm[p[1]][p[2]] * gen.nbins <= b * gen.rmax})
           /\ gen.atom_types =
                 IF explicit THEN given
                 ELSE IF first_seen = None THEN None
                 ELSE Some(set_order(Get(first_seen)))

\* rdf_vec on a structure of two elements with one element configured
C9_Witness ==
    /\ Returned("rdf_vec") /\ K = 2
    /\ Len(last.result.vec) = 4 * gen.nbins
    /\ given = Some(<<47>>)

\* C10: the configuration never changes; nearestneighbour_vec,
\* bond_count_vec and rdf_vec leave structure and generator as they are;
\* only distribution_vec changes cell and positions, the cell to cell_size;
\* only distribution_vec and connections_vec write the neighbour list, and
\* only with get_nl set.
Configuration(g) == <<g.max_bonds, g.get_nl, g.dx, g.cell_size, g.nbin, g.nbins, g.rmax>>

C10_Frame ==
    [][/\ Configuration(gen') = Configuration(gen)
       /\ last'.method \in {"nearestneighbour_vec", "bond_count_vec", "rdf_vec"}
             => (atoms' = atoms /\ gen' = gen)
       /\ last'.method \in Methods =>
             /\ (atoms'.cell # atoms.cell \/ atoms'.positions # atoms.positions)
                   => (last'.method = "distribution_vec" /\ atoms'.cell = gen.cell_size)
             /\ atoms'.numbers = atoms.numbers
             /\ atoms'.neighborlist # atoms.neighborlist
                   => (last'.method \in {"distribution_vec", "connections_vec"}
                       /\ gen.get_nl)
             /\ ~gen.get_nl => atoms'.neighborlist = atoms.neighborlist
      ]_vars

\* connections_vec with get_nl set has attached a list and left the cell alone
C10_Witness ==
    /\ Returned("connections_vec") /\ gen.get_nl
    /\ atoms.neighborlist # None
    /\ atoms.cell \in InputCells /\ atoms.cell # gen.cell_size

\* ---- the two threads ----
AllDone == \A t \in Threads : pc[t] = "done"

\* the element set a thread's own structure gives
OwnSet(t) == Some(frozenset_of_numbers(tatoms[t]))

\* C8: two first calls on a generator with atom_types unset: when both
\* have returned, the cached set is that of the thread that assigned last,
\* and each call iterated the set of one of the two structures, which can
\* be the other call's; when the calls did not overlap, only the first
\* caller assigned, and the cached and the iterated sets are its own.
C8_RaceOnElementSet ==
    AllDone =>
        /\ writers # <<>>
        /\ gen.atom_types = OwnSet(writers[Len(writers)])
        /\ \A t \in Threads : ttypes[t] \in {OwnSet(u) : u \in Threads}
        /\ ~overlapped =>
              /\ writers = <<started[1]>>
              /\ gen.atom_types = OwnSet(started[1])
              /\ \A t \in Threads : ttypes[t] = OwnSet(started[1])

\* both threads saw the set unset and both assigned; the thread that
\* assigned first then iterated the other's set, of another composition,
\* and that set is the one left cached
C8_Witness ==
    /\ AllDone /\ Len(writers) = 2
    /\ OwnSet(1) # OwnSet(2)
    /\ ttypes[writers[1]] = OwnSet(writers[2])
    /\ gen.atom_types = OwnSet(writers[2])
    /\ Len(tret[1]) # Len(tret[2])

====
